---------------------------- MODULE Spec2Model ----------------------------
(***************************************************************************)
(* A model of src/baseline.py: add_bassline adds a walking bass line to a  *)
(* score by arpeggiating the chord track up and down, one note per beat.   *)
(*                                                                         *)
(* Representation.                                                         *)
(*   - Times are integers counted in ticks of 5 ms, so that the 0.5 s of   *)
(*     the fallback grid is 100 ticks and 98% of a window is exact.        *)
(*   - A note is [pitch, start, end, velocity]; an instrument is           *)
(*     [name, program, notes]; a name is a sequence of one-character       *)
(*     strings (so that startswith, lower and "in" are computed).          *)
(*   - Python's Optional is a sequence of length 0 (None) or 1.            *)
(*   - Python lists are 1-based sequences here; the 0-based positions idx  *)
(*     and bi keep their Python values.                                    *)
(***************************************************************************)
EXTENDS Integers, Sequences, FiniteSets

VARIABLES
    input,        \* the instruments of pm as add_bassline received them
    timeline,     \* pm's timeline: get_beats(), get_downbeats(), time signatures
    instruments,  \* pm.instruments
    pc,           \* position in add_bassline: "select", "grid", "walk", "done"
                  \* (returned), or "raised" (left by an exception); in
                  \* process_all also "next" (at the head of the loop over
                  \* the files), "finished" and "crashed"
    chords_inst,  \* Optional position (1-based) of the chords instrument
    beats,        \* the beat grid
    bass,         \* bass.notes
    prev_pcset,   \* Optional tuple of pitch classes
    order,        \* ordered pitch classes of the current chord
    idx,          \* position in order (0-based)
    dir_up,       \* direction of the walk
    prev_midi,    \* Optional previous bass pitch
    bi,           \* the beat window the loop is at (0-based)
    proj,         \* one call of pc_to_midi_near: its arguments and result
    batch         \* process_all: the input files, the number n of the file
                  \* the loop is at, and what was reported of the files so far

vars == <<input, timeline, instruments, pc, chords_inst, beats, bass,
          prev_pcset, order, idx, dir_up, prev_midi, bi, proj,
          batch>>

walk == <<prev_pcset, order, idx, dir_up, prev_midi>>

-----------------------------------------------------------------------------
(* Optional values *)

None == <<>>

Some(x) == <<x>>

Get(o) == o[1]

-----------------------------------------------------------------------------
(* Program constants *)

BASS_PROGRAM == 33

VEL == 85

C1 == 24

C3 == 48

NOTE_DENSITY == 1

\* CHORD_VEL_SCALE = 0.7, as the fraction CHORD_VEL_NUM / CHORD_VEL_DEN
CHORD_VEL_NUM == 7

CHORD_VEL_DEN == 10

\* the default of avg_simultaneity's parameter slices
SLICES == 512

\* the 0.5 s step of the fallback grid, in ticks
HALF_SECOND == 100

\* the default reference pitch (C2) of the range projection
C2 == 36

\* the 0.98 of the note length, in percent
DUR_PERCENT == 98

\* the program the melody is retargeted to
MELODY_SAX_PROGRAM == 65

\* the last file number of process_all: for n in range(1, 156)
LAST_FILE == 155

\* process_all's melody_name_hint, in lower case: "melody"
melody_name_hint == <<"m", "e", "l", "o", "d", "y">>

\* the prefix process_all knows the bass track by: "Walking Bass"
WALKING_BASS == <<"W", "a", "l", "k", "i", "n", "g", " ", "B", "a", "s", "s">>

\* the default of add_bassline's chord_instr_name_prefix: "Piano, Chords:"
chord_instr_name_prefix ==
    <<"P", "i", "a", "n", "o", ",", " ", "C", "h", "o", "r", "d", "s", ":">>

\* the literal "chords" of the fuzzy match
CHORDS_SUBSTRING == <<"c", "h", "o", "r", "d", "s">>

\* the name of the generated track: "Walking Bass (auto)"
BASS_NAME ==
    <<"W", "a", "l", "k", "i", "n", "g", " ", "B", "a", "s", "s", " ",
      "(", "a", "u", "t", "o", ")">>

-----------------------------------------------------------------------------
(* Strings *)

UPPER == <<"A", "B", "C", "D", "E", "F", "G", "H", "I", "J", "K", "L", "M",
           "N", "O", "P", "Q", "R", "S", "T", "U", "V", "W", "X", "Y", "Z">>

LOWER == <<"a", "b", "c", "d", "e", "f", "g", "h", "i", "j", "k", "l", "m",
           "n", "o", "p", "q", "r", "s", "t", "u", "v", "w", "x", "y", "z">>

\* str.lower() on one character
lower_char(c) ==
    IF \E i \in 1..Len(UPPER) : UPPER[i] = c
    THEN LOWER[CHOOSE i \in 1..Len(UPPER) : UPPER[i] = c]
    ELSE c

\* str.lower()
lower(s) == [i \in 1..Len(s) |-> lower_char(s[i])]

\* s.startswith(prefix)
startswith(s, prefix) ==
    /\ Len(prefix) <= Len(s)
    /\ \A i \in 1..Len(prefix) : s[i] = prefix[i]

\* sub in s
contains(sub, s) ==
    \E k \in 0..(Len(s) - Len(sub)) :
        \A i \in 1..Len(sub) : s[k + i] = sub[i]

-----------------------------------------------------------------------------
(* Small arithmetic *)

Min(a, b) == IF a < b THEN a ELSE b

Max(a, b) == IF a > b THEN a ELSE b

Abs(x) == IF x < 0 THEN -x ELSE x

\* Python's round() of the fraction num / den (den > 0, num >= 0):
\* to the nearest integer, a tie to the even one
round_half_even(num, den) ==
    LET q == num \div den
        r == num % den
    IN  IF 2 * r < den THEN q
        ELSE IF 2 * r > den THEN q + 1
        ELSE IF q % 2 = 0 THEN q ELSE q + 1

RECURSIVE sorted(_)
\* sorted() of a set of integers
sorted(S) ==
    IF S = {} THEN <<>>
    ELSE LET m == CHOOSE x \in S : \A y \in S : x <= y
         IN  <<m>> \o sorted(S \ {m})

RECURSIVE min_start(_)
\* min(n.start for n in notes), notes non-empty
min_start(notes) ==
    IF Len(notes) = 1 THEN notes[1].start
    ELSE Min(notes[1].start, min_start(Tail(notes)))

RECURSIVE max_end(_)
\* max(n.end for n in notes), notes non-empty
max_end(notes) ==
    IF Len(notes) = 1 THEN notes[1].end
    ELSE Max(notes[1].end, max_end(Tail(notes)))

-----------------------------------------------------------------------------
(* Helpers of baseline.py *)

\* effective_note_density: the first time signature's denominator 2 doubles it
effective_note_density(ts_denominators) ==
    IF ts_denominators /= <<>> /\ ts_denominators[1] = 2
    THEN NOTE_DENSITY * 2
    ELSE NOTE_DENSITY

\* candidates: pc + 12 * octv for octv in range(0, 10), in list order
candidates(p) == [o \in 1..10 |-> p + 12 * (o - 1)]

\* nearest_candidate with abs() forgotten in the key: min of m - base is
\* the lowest candidate
nearest_candidate_signed(p, base) ==
    LET c == candidates(p)
        k == CHOOSE i \in 1..Len(c) :
                 /\ \A j \in 1..Len(c) : c[i] - base <= c[j] - base
                 /\ \A j \in 1..(i - 1) : c[j] - base > c[i] - base
    IN  c[k]

\* min(candidates, key=lambda m: abs(m - base)): the first of the nearest
nearest_candidate(p, base) ==
    LET c == candidates(p)
        k == CHOOSE i \in 1..Len(c) :
                 /\ \A j \in 1..Len(c) : Abs(c[i] - base) <= Abs(c[j] - base)
                 /\ \A j \in 1..(i - 1) : Abs(c[j] - base) > Abs(c[i] - base)
    IN  c[k]

\* clamp_up with the first while loop left out
clamp_up_missing(chosen) == chosen

RECURSIVE clamp_up(_)
\* while chosen < C1: chosen += 12
clamp_up(chosen) == IF chosen < C1 THEN clamp_up(chosen + 12) ELSE chosen

RECURSIVE clamp_down(_)
\* while chosen > C3: chosen -= 12
clamp_down(chosen) == IF chosen > C3 THEN clamp_down(chosen - 12) ELSE chosen

\* pc_to_midi_near(pc, ref_midi), ref_midi Optional
pc_to_midi_near(p, ref_midi) ==
    LET base == IF ref_midi = None THEN C2 ELSE Get(ref_midi)
    IN  clamp_down(clamp_up(nearest_candidate(p, base)))

\* notes_overlapping with <= and >= for < and >: a note that only touches
\* the window counts
notes_overlapping_touching(instrument, start, end) ==
    SelectSeq(instrument.notes, LAMBDA n : n.start <= end /\ n.end >= start)

\* notes_overlapping(instrument, start, end)
notes_overlapping(instrument, start, end) ==
    SelectSeq(instrument.notes, LAMBDA n : n.start < end /\ n.end > start)

\* chord_pitch_classes without sorted() and without the set: the pitch
\* classes in the order of the notes
chord_pitch_classes_in_note_order(notes) ==
    [i \in 1..Len(notes) |-> notes[i].pitch % 12]

\* chord_pitch_classes(notes)
chord_pitch_classes(notes) ==
    sorted({notes[i].pitch % 12 : i \in 1..Len(notes)})

\* The number of slices [times[i], times[i+1]] of np.linspace(t0, t1, SLICES)
\* that note n overlaps (n.start < b and n.end > a), in exact arithmetic:
\* times[i] = t0 + i * (t1 - t0) / (SLICES - 1).
slices_overlapped(n, t0, t1) ==
    Cardinality({i \in 0..(SLICES - 2) :
        /\ (n.start - t0) * (SLICES - 1) < (i + 1) * (t1 - t0)
        /\ (n.end - t0) * (SLICES - 1) > i * (t1 - t0)})

RECURSIVE sum_slices(_, _, _)
sum_slices(notes, t0, t1) ==
    IF notes = <<>> THEN 0
    ELSE slices_overlapped(notes[1], t0, t1) + sum_slices(Tail(notes), t0, t1)

\* avg_simultaneity(inst), times (SLICES - 1): the total tot before the final
\* division, which is the same division for every instrument
avg_simultaneity(inst) ==
    IF inst.notes = <<>> THEN 0
    ELSE LET t0 == min_start(inst.notes)
             t1 == max_end(inst.notes)
         IN  IF t1 <= t0 THEN 0 ELSE sum_slices(inst.notes, t0, t1)

\* the new velocity of one note: max(1, min(127, int(round(velocity * scale))))
scaled_velocity(velocity) ==
    Max(1, Min(127, round_half_even(velocity * CHORD_VEL_NUM, CHORD_VEL_DEN)))

\* scale_instrument_velocity(inst, CHORD_VEL_SCALE)
scale_instrument_velocity(inst) ==
    [inst EXCEPT !.notes =
        [i \in 1..Len(inst.notes) |->
            [inst.notes[i] EXCEPT !.velocity = scaled_velocity(@)]]]

-----------------------------------------------------------------------------
(* Finding the chords instrument *)

\* the test of the first loop: inst.name and inst.name.startswith(prefix)
exact_match(inst, prefix) ==
    inst.name /= <<>> /\ startswith(inst.name, prefix)

\* the test of the second loop: inst.name and "chords" in inst.name.lower()
fuzzy_match(inst) ==
    inst.name /= <<>> /\ contains(CHORDS_SUBSTRING, lower(inst.name))

RECURSIVE find_exact(_, _, _)
\* 1) the first loop from position i on: the first exact match, or None
find_exact(insts, prefix, i) ==
    IF i > Len(insts) THEN None
    ELSE IF exact_match(insts[i], prefix) THEN Some(i)
    ELSE find_exact(insts, prefix, i + 1)

RECURSIVE find_fuzzy(_, _)
\* 2) the second loop from position i on
find_fuzzy(insts, i) ==
    IF i > Len(insts) THEN None
    ELSE IF fuzzy_match(insts[i]) THEN Some(i)
    ELSE find_fuzzy(insts, i + 1)

\* better with >= for >: a later instrument of the same score replaces best
better_or_equal(score, best_score, inst) ==
    score >= best_score /\ inst.notes /= <<>>

\* the test that replaces best: score > best_score and inst.notes
better(score, best_score, inst) ==
    score > best_score /\ inst.notes /= <<>>

RECURSIVE most_polyphonic(_, _, _, _)
\* 3) the third loop from position i on, with best and best_score so far
most_polyphonic(insts, i, best, best_score) ==
    IF i > Len(insts) THEN best
    ELSE LET score == avg_simultaneity(insts[i])
         IN  IF better(score, best_score, insts[i])
             THEN most_polyphonic(insts, i + 1, Some(i), score)
             ELSE most_polyphonic(insts, i + 1, best, best_score)

\* find_chords_inst where a named track without notes is passed over for
\* the most polyphonic track
find_chords_inst_skips_empty(insts, prefix) ==
    LET exact == find_exact(insts, prefix, 1)
        named == IF exact /= None THEN exact ELSE find_fuzzy(insts, 1)
    IN  IF named /= None /\ insts[Get(named)].notes /= <<>>
        THEN named
        ELSE most_polyphonic(insts, 1, None, -(SLICES - 1))

\* the chords instrument add_bassline settles on (lines 171-192);
\* best_score starts at -1.0, which is -(SLICES - 1) in the scaled score
find_chords_inst(insts, prefix) ==
    LET exact == find_exact(insts, prefix, 1)
    IN  IF exact /= None THEN exact
        ELSE LET fuzzy == find_fuzzy(insts, 1)
             IN  IF fuzzy /= None THEN fuzzy
                 ELSE most_polyphonic(insts, 1, None, -(SLICES - 1))

\* no_chords without the test of the notes
no_chords_none_only(insts, found) == found = None

\* the early return: chords_inst is None or not chords_inst.notes
no_chords(insts, found) ==
    found = None \/ insts[Get(found)].notes = <<>>

-----------------------------------------------------------------------------
(* Retargeting the melody *)

RECURSIVE find_melody(_, _)
\* the first loop of retarget_melody_to_sax from position i on: the first
\* instrument whose name holds the hint, case ignored, or None
find_melody(insts, i) ==
    IF i > Len(insts) THEN None
    ELSE IF insts[i].name /= <<>> /\ contains(melody_name_hint, lower(insts[i].name))
    THEN Some(i)
    ELSE find_melody(insts, i + 1)

RECURSIVE least_polyphonic(_, _, _, _)
\* the fallback loop from position i on: the first instrument of the lowest
\* score among those with notes that are no drums; best_score None is inf
least_polyphonic(insts, i, best, best_score) ==
    IF i > Len(insts) THEN best
    ELSE IF insts[i].is_drum \/ insts[i].notes = <<>>
    THEN least_polyphonic(insts, i + 1, best, best_score)
    ELSE LET score == avg_simultaneity(insts[i])
         IN  IF best_score = None \/ score < Get(best_score)
             THEN least_polyphonic(insts, i + 1, Some(i), Some(score))
             ELSE least_polyphonic(insts, i + 1, best, best_score)

\* retarget_melody_to_sax(pm, "Melody"): the instruments afterwards
retarget_melody_to_sax(insts) ==
    LET hinted == find_melody(insts, 1)
        target == IF hinted /= None THEN hinted
                  ELSE least_polyphonic(insts, 1, None, None)
    IN  IF target = None THEN insts
        ELSE [insts EXCEPT ![Get(target)].program = MELODY_SAX_PROGRAM]

-----------------------------------------------------------------------------
(* The beat grid *)

RECURSIVE arange(_, _, _)
\* np.arange(t0, t1, step)
arange(t0, t1, step) ==
    IF t0 >= t1 THEN <<>> ELSE <<t0>> \o arange(t0 + step, t1, step)

\* the beats before subdivision (lines 204-215)
native_beats(tl, chords) ==
    IF Len(tl.beats) < 2
    THEN IF Len(tl.downbeats) >= 2
         THEN tl.downbeats
         ELSE arange(min_start(chords.notes), max_end(chords.notes), HALF_SECOND)
    ELSE tl.beats

\* np.linspace(a, b, dens + 1)[:-1]
linspace_head(a, b, dens) == [j \in 1..dens |-> a + ((j - 1) * (b - a)) \div dens]

RECURSIVE subdivided(_, _, _)
\* new_beats after the loop from position i on (lines 220-223)
subdivided(bs, dens, i) ==
    IF i > Len(bs) - 1 THEN <<>>
    ELSE linspace_head(bs[i], bs[i + 1], dens) \o subdivided(bs, dens, i + 1)

\* beat_grid with new_beats.append(beats[-1]) forgotten
beat_grid_without_last(bs, dens) ==
    IF dens > 1 THEN subdivided(bs, dens, 1) ELSE bs

\* the grid after the density step (lines 217-225); beats[-1] of an empty
\* grid raises IndexError, which the model leaves to the caller: see Grid
beat_grid(bs, dens) ==
    IF dens > 1 THEN subdivided(bs, dens, 1) \o <<bs[Len(bs)]>> ELSE bs

-----------------------------------------------------------------------------
(* One beat of the walk *)

\* held_pcset with the test of prev_pcset dropped: every silent beat is skipped
held_pcset_skips_silence(pcs, prev) == IF pcs = <<>> THEN None ELSE Some(pcs)

\* held_pcset with a default chord: silence before the first chord plays C
held_pcset_default(pcs, prev) ==
    IF pcs = <<>> THEN (IF prev = None THEN Some(<<0>>) ELSE prev) ELSE Some(pcs)

\* lines 242-248: the tuple the beat goes on with, None when the beat is skipped
held_pcset(pcs, prev) == IF pcs = <<>> THEN prev ELSE Some(pcs)

\* line 251: pcs_tuple != prev_pcset
chord_changed(pcs_tuple, prev) == pcs_tuple /= prev

\* restart with idx = 0 forgotten: the new chord is entered at the place the
\* walk stood at (folded into the new chord's length)
restart_keeps_place(changed, pcs_tuple, cur_order, cur_idx, cur_up) ==
    IF changed
    THEN [order |-> Get(pcs_tuple), idx |-> cur_idx % Len(Get(pcs_tuple)),
          dir_up |-> TRUE]
    ELSE [order |-> cur_order, idx |-> cur_idx, dir_up |-> cur_up]

\* lines 251-255: the chord tones, the index and the direction the beat
\* selects with: those of the new chord from its bottom when the chord
\* changed, else the ones kept from the beat before
restart(changed, pcs_tuple, cur_order, cur_idx, cur_up) ==
    IF changed
    THEN [order |-> Get(pcs_tuple), idx |-> 0, dir_up |-> TRUE]
    ELSE [order |-> cur_order, idx |-> cur_idx, dir_up |-> cur_up]

\* advance with the step back after the turn forgotten: the turn only flips
\* the direction, so the top and the bottom tone sound twice
advance_turn_in_place(i, up, n) ==
    IF up
    THEN IF i + 1 < n
         THEN [idx |-> i + 1, dir_up |-> TRUE]
         ELSE [idx |-> i, dir_up |-> FALSE]
    ELSE IF i - 1 >= 0
         THEN [idx |-> i - 1, dir_up |-> FALSE]
         ELSE [idx |-> i, dir_up |-> TRUE]

\* advance without the n > 1 tests: on a chord of one tone the walk steps
\* off the list
advance_always_steps(i, up, n) ==
    IF up
    THEN IF i + 1 < n
         THEN [idx |-> i + 1, dir_up |-> TRUE]
         ELSE [idx |-> i - 1, dir_up |-> FALSE]
    ELSE IF i - 1 >= 0
         THEN [idx |-> i - 1, dir_up |-> FALSE]
         ELSE [idx |-> i + 1, dir_up |-> TRUE]

\* lines 269-282: the index and the direction for the next beat
advance(i, up, n) ==
    IF up
    THEN IF i + 1 < n
         THEN [idx |-> i + 1, dir_up |-> TRUE]
         ELSE [idx |-> IF n > 1 THEN i - 1 ELSE i, dir_up |-> FALSE]
    ELSE IF i - 1 >= 0
         THEN [idx |-> i - 1, dir_up |-> FALSE]
         ELSE [idx |-> IF n > 1 THEN i + 1 ELSE i, dir_up |-> TRUE]

\* note_dur without the shortening: the note fills its window
note_dur_full(t0, t1) == t1 - t0

\* line 263: dur = (t1 - t0) * 0.98
note_dur(t0, t1) == ((t1 - t0) * DUR_PERCENT) \div 100

\* line 264: the bass note of a window
bass_note(midi_pitch, t0, t1) ==
    [pitch |-> midi_pitch, start |-> t0, end |-> t0 + note_dur(t0, t1),
     velocity |-> VEL]

\* line 259: the reference handed to pc_to_midi_near
reference(prev) == IF prev /= None THEN prev ELSE Some(C2)

\* line 228 with the notes of line 284: pretty_midi.Instrument(
\* program=BASS_PROGRAM, name="Walking Bass (auto)"), not a drum track
bass_instrument(notes) ==
    [name |-> BASS_NAME, program |-> BASS_PROGRAM, is_drum |-> FALSE,
     notes |-> notes]

-----------------------------------------------------------------------------
(* add_bassline, step by step *)

\* lines 171-201: find the chords instrument; return early without one,
\* else soften the chord line
Select ==
    /\ pc = "select"
    /\ LET found == find_chords_inst(instruments, chord_instr_name_prefix)
       IN  /\ chords_inst' = found
           /\ IF no_chords(instruments, found)
              THEN /\ pc' = "done"
                   /\ UNCHANGED instruments
              ELSE /\ pc' = "grid"
                   /\ instruments' =
                        [instruments EXCEPT
                            ![Get(found)] = scale_instrument_velocity(@)]
    /\ UNCHANGED <<input, timeline, beats, bass, walk, bi, proj, batch>>

\* lines 203-235: the beat grid, the empty bass instrument, the walk state.
\* With dens > 1 an empty grid makes beats[-1] raise IndexError.
Grid ==
    /\ pc = "grid"
    /\ LET bs == native_beats(timeline, instruments[Get(chords_inst)])
           dens == effective_note_density(timeline.time_signatures)
       IN  IF dens > 1 /\ bs = <<>>
           THEN pc' = "raised" /\ UNCHANGED beats
           ELSE pc' = "walk" /\ beats' = beat_grid(bs, dens)
    /\ bass' = <<>>
    /\ prev_pcset' = None
    /\ order' = <<>>
    /\ idx' = 0
    /\ dir_up' = TRUE
    /\ prev_midi' = None
    /\ bi' = 0
    /\ UNCHANGED <<input, timeline, instruments, chords_inst, proj, batch>>

\* lines 238-282: one iteration of the loop over the beat windows
Beat ==
    /\ pc = "walk"
    /\ bi < Len(beats) - 1
    /\ bi' = bi + 1
    /\ LET t0 == beats[bi + 1]
           t1 == beats[bi + 2]
           win_notes == notes_overlapping(instruments[Get(chords_inst)], t0, t1)
           pcs == chord_pitch_classes(win_notes)
           pcs_tuple == held_pcset(pcs, prev_pcset)
       IN  IF pcs_tuple = None
           THEN UNCHANGED <<bass, walk>>
           ELSE LET changed == chord_changed(pcs_tuple, prev_pcset)
                    cur == restart(changed, pcs_tuple, order, idx, dir_up)
                    midi_pitch ==
                        pc_to_midi_near(cur.order[cur.idx + 1], reference(prev_midi))
                    next == advance(cur.idx, cur.dir_up, Len(cur.order))
                IN  /\ prev_pcset' = pcs_tuple
                    /\ order' = cur.order
                    /\ bass' = Append(bass, bass_note(midi_pitch, t0, t1))
                    /\ prev_midi' = Some(midi_pitch)
                    /\ idx' = next.idx
                    /\ dir_up' = next.dir_up
    /\ UNCHANGED <<input, timeline, instruments, pc, chords_inst, beats, proj,
                   batch>>

\* Finish with the bass instrument put in front of the others
Finish_in_front ==
    /\ pc = "walk"
    /\ bi >= Len(beats) - 1
    /\ instruments' =
            <<bass_instrument(bass)>>
                \o instruments
    /\ pc' = "done"
    /\ UNCHANGED <<input, timeline, chords_inst, beats, bass, walk, bi, proj,
                   batch>>

\* lines 284-285: the loop is over; append the bass instrument and return
Finish ==
    /\ pc = "walk"
    /\ bi >= Len(beats) - 1
    /\ instruments' = Append(instruments, bass_instrument(bass))
    /\ pc' = "done"
    /\ UNCHANGED <<input, timeline, chords_inst, beats, bass, walk, bi, proj,
                   batch>>

\* one call of pc_to_midi_near on the arguments held in proj
Project ==
    /\ proj.out = None
    /\ proj' = [proj EXCEPT !.out = Some(pc_to_midi_near(proj.p, proj.ref))]
    /\ UNCHANGED <<input, timeline, instruments, pc, chords_inst, beats, bass,
                   walk, bi, batch>>

Next == Select \/ Grid \/ Beat \/ Finish

-----------------------------------------------------------------------------
(* Scores *)

\* a beat at 120 bpm, in ticks
BEAT == HALF_SECOND

Instrument(name, notes) ==
    [name |-> name, program |-> 0, is_drum |-> FALSE, notes |-> notes]

Note(pitch, start, end) ==
    [pitch |-> pitch, start |-> start, end |-> end, velocity |-> 100]

\* the notes of one voicing (a sequence of pitches) filling beat window w
voicing_notes(v, w) ==
    [j \in 1..Len(v) |-> Note(v[j], w * BEAT, (w + 1) * BEAT)]

RECURSIVE chart_notes(_, _)
\* the notes of a chart (a voicing per beat window) from window w on
chart_notes(chart, w) ==
    IF w >= Len(chart) THEN <<>>
    ELSE voicing_notes(chart[w + 1], w) \o chart_notes(chart, w + 1)

\* "Piano, Melody:Voice"
MELODY_NAME ==
    <<"P", "i", "a", "n", "o", ",", " ", "M", "e", "l", "o", "d", "y", ":",
      "V", "o", "i", "c", "e">>

\* "Piano, Chords:Voice"
CHORDS_NAME == chord_instr_name_prefix \o <<"V", "o", "i", "c", "e">>

\* a melody track of two notes
melody_track == Instrument(MELODY_NAME, <<Note(72, 0, BEAT), Note(74, BEAT, 2 * BEAT)>>)

\* the chord track of a chart
chord_track(chart) == Instrument(CHORDS_NAME, chart_notes(chart, 0))

\* the timeline of a score of n beats in 4/4 at 120 bpm
timeline_of(n) ==
    [beats |-> [i \in 1..(n + 1) |-> (i - 1) * BEAT],
     downbeats |-> <<>>,
     time_signatures |-> <<4>>]

\* pitch sequences a beat window of the chord track may hold: silence, one
\* tone, C major in two orders and octaves, D minor, a dyad, a four-tone chord
Voicings ==
    {<<>>, <<48>>, <<48, 52, 55>>, <<67, 64, 60>>, <<50, 53, 57>>,
     <<52, 48>>, <<59, 50, 53, 57>>}

\* the charts of at most n beat windows
Charts(n) == UNION {[1..k -> Voicings] : k \in 0..n}

\* no call of pc_to_midi_near is followed
proj_idle == [p |-> 0, ref |-> None, out |-> None]

\* add_bassline is not called from process_all
batch_idle == [files |-> <<>>, n |-> 0, log |-> <<>>]

\* add_bassline is entered with score insts and timeline tl
Entered(insts, tl) ==
    /\ input = insts
    /\ timeline = tl
    /\ instruments = insts
    /\ pc = "select"
    /\ chords_inst = None
    /\ beats = <<>>
    /\ bass = <<>>
    /\ prev_pcset = None
    /\ order = <<>>
    /\ idx = 0
    /\ dir_up = TRUE
    /\ prev_midi = None
    /\ bi = 0

MaxBeats == 4

\* a melody track and a chord track holding any chart of at most MaxBeats beats
Init ==
    /\ \E chart \in Charts(MaxBeats) :
           Entered(<<melody_track, chord_track(chart)>>, timeline_of(Len(chart)))
    /\ proj = proj_idle
    /\ batch = batch_idle

Spec == Init /\ [][Next]_vars

-----------------------------------------------------------------------------
(* What the properties speak of, stated from the score and not from the    *)
(* walk: the definitions from here on that are not scores or               *)
(* specifications are the vocabulary of the properties, not the program.   *)

\* the harmony track as add_bassline received it
Harmony == input[Get(chords_inst)]

\* the number of beat windows of the grid
Windows == IF Len(beats) < 2 THEN 0 ELSE Len(beats) - 1

\* the set of pitch classes sounding in beat window w (0-based)
Sounding(w) ==
    {Harmony.notes[i].pitch % 12 :
        i \in {j \in 1..Len(Harmony.notes) :
                  /\ Harmony.notes[j].start < beats[w + 2]
                  /\ Harmony.notes[j].end > beats[w + 1]}}

\* the element of rank r (0-based) of a set of integers in ascending order
Ranked(S, r) == CHOOSE x \in S : Cardinality({y \in S : y < x}) = r

\* position n (0-based) of the sequence 0,1,...,k-1,k-2,...,1,0,1,...
PingPong(k, n) ==
    IF k = 1 THEN 0
    ELSE LET m == n % (2 * (k - 1))
         IN  IF m < k THEN m ELSE 2 * (k - 1) - m

\* the pitch class of the j-th bass note
BassPc(j) == bass[j].pitch % 12

\* the walk has been set up and the grid is known
\* no harmony track was found: none selected, or the selected one has no notes
NoHarmony == chords_inst = None \/ input[Get(chords_inst)].notes = <<>>

Walking == pc \in {"walk", "done"} /\ ~NoHarmony

-----------------------------------------------------------------------------
(* One chord held for the whole piece *)

\* sets of voicings; the voicings of one set sound the same pitch classes
HeldVoicings ==
    {{<<48>>, <<60>>},
     {<<48, 52>>, <<64, 60>>},
     {<<48, 52, 55>>, <<67, 64, 60>>},
     {<<50, 53, 57, 59>>, <<59, 50, 53, 57>>},
     {<<48, 50, 52, 53, 55>>, <<55, 53, 52, 50, 48>>}}

MaxHold == 8

\* the chord track holds one chord, in any of its voicings, for n beats
InitHold ==
    /\ \E vs \in HeldVoicings : \E n \in 1..MaxHold : \E chart \in [1..n -> vs] :
           Entered(<<melody_track, chord_track(chart)>>, timeline_of(n))
    /\ proj = proj_idle
    /\ batch = batch_idle

SpecHold == InitHold /\ [][Next]_vars

\* C1: while one chord of k tones is held, the n-th beat (from 0) selects the
\* tone of rank PingPong(k, n) of the chord: the walk goes 0,1,...,k-1,k-2,
\* ...,1,0,1,...; the position kept for the next beat is the next of that
\* sequence; for k >= 2 no two successive beats select the same tone, and
\* for k = 1 every beat selects the one tone.
PingPongWhileHeld ==
    Walking =>
        LET held == Sounding(0)
            k == Cardinality(held)
        IN  /\ \A j \in 1..Len(bass) :
                   BassPc(j) = Ranked(held, PingPong(k, j - 1))
            /\ bi >= 1 => idx = PingPong(k, bi)
            /\ k >= 2 => \A j \in 1..(Len(bass) - 1) : BassPc(j) /= BassPc(j + 1)
            /\ k = 1 => \A j \in 1..Len(bass) : BassPc(j) = BassPc(1)

\* C1 witness: a triad was held long enough for the walk to turn at the top
\* and at the bottom
PingPongWitness ==
    /\ pc = "done"
    /\ ~NoHarmony
    /\ Len(order) = 3
    /\ Len(bass) >= 6
    /\ BassPc(3) = order[3]
    /\ BassPc(5) = order[1]
    /\ BassPc(6) = order[2]

-----------------------------------------------------------------------------
(* Any chart: chord changes, repeats and silences in any order *)

\* the walk over k tones goes from place i, direction up, to place i2,
\* direction up2, in one step of 0,1,...,k-1,k-2,...,1,0,1,...
StepsOnce(i, up, i2, up2, k) ==
    IF k = 1 THEN i2 = i
    ELSE IF up /\ i < k - 1 THEN i2 = i + 1 /\ up2
    ELSE IF up THEN i2 = i - 1 /\ ~up2
    ELSE IF i > 0 THEN i2 = i - 1 /\ ~up2
    ELSE i2 = i + 1 /\ up2

\* sequence s lists set S in ascending order
Ascending(s, S) ==
    /\ Len(s) = Cardinality(S)
    /\ \A r \in 0..(Len(s) - 1) : s[r + 1] = Ranked(S, r)

\* the step taken is one iteration of the loop, over beat window bi
BeatStep == pc = "walk" /\ bi' = bi + 1

\* the step restarted the walk on the set S: S is the active set, its lowest
\* tone was played and the walk stands one step above the bottom
Restarted(S) ==
    /\ prev_pcset' /= None
    /\ Ascending(Get(prev_pcset'), S)
    /\ Ascending(order', S)
    /\ Len(bass') = Len(bass) + 1
    /\ bass'[Len(bass')].pitch % 12 = Ranked(S, 0)
    /\ StepsOnce(0, TRUE, idx', dir_up', Cardinality(S))

\* the step went on with the walk: the active set and the chord tones are
\* kept, the tone at idx was played and the walk moved one step
WentOn ==
    /\ prev_pcset' = prev_pcset
    /\ order' = order
    /\ Len(bass') = Len(bass) + 1
    /\ bass'[Len(bass')].pitch % 12 = order[idx + 1]
    /\ bass'[Len(bass')].start = beats[bi + 1]
    /\ StepsOnce(idx, dir_up, idx', dir_up', Len(order))

\* C2: when beat windows bi-1 and bi both sound, the beat of window bi
\* restarts the walk if the two windows sound different sets of pitch
\* classes, and goes on with it (index and direction not reset) if they
\* sound the same set, whatever the order and octaves of the notes.
ResetIffSetsDiffer ==
    [][(BeatStep /\ bi >= 1 /\ Sounding(bi - 1) /= {} /\ Sounding(bi) /= {}) =>
          IF Sounding(bi) /= Sounding(bi - 1)
          THEN Restarted(Sounding(bi))
          ELSE WentOn]_vars

\* C2 witness: the first two windows sounded the same set in different
\* voicings and the walk went on to its second tone; the third window
\* sounded another set and the walk restarted at its lowest tone
ResetWitness ==
    /\ pc = "walk"
    /\ bi = 3
    /\ Cardinality(Sounding(0)) = 3
    /\ Sounding(1) = Sounding(0)
    /\ notes_overlapping(Harmony, beats[1], beats[2])[1].pitch
           /= notes_overlapping(Harmony, beats[2], beats[3])[1].pitch
    /\ Sounding(2) \notin {{}, Sounding(1)}
    /\ Len(bass) = 3
    /\ BassPc(2) = Ranked(Sounding(0), 1)
    /\ BassPc(3) = Ranked(Sounding(2), 0)

\* some window up to w (0-based) sounds
SoundedBy(w) == \E v \in 0..w : Sounding(v) /= {}

\* C5: a silent beat window met while a chord is active is a beat of that
\* chord: the walk is not reset, one bass note with the pitch class at the
\* index is emitted at the window's start, and the index moves one step.
SilenceSustains ==
    [][(BeatStep /\ Sounding(bi) = {} /\ prev_pcset /= None) => WentOn]_vars

\* C5 witness: a chord of several tones sounded, then a silent window got
\* the chord's second tone
SilenceSustainsWitness ==
    /\ pc = "walk"
    /\ bi = 2
    /\ Cardinality(Sounding(0)) >= 2
    /\ Sounding(1) = {}
    /\ Len(bass) = 2
    /\ bass[2].start = beats[2]
    /\ BassPc(2) = order[2]
    /\ prev_pcset /= None

\* C6: a silent beat window met before any window has sounded emits no bass
\* note and leaves the active set, the chord tones, the index, the
\* direction and the previous pitch as they were.
LeadingSilenceSkipped ==
    [][(BeatStep /\ ~SoundedBy(bi)) => UNCHANGED <<bass, walk>>]_vars

\* C6 witness: two silent windows were skipped before anything sounded, with
\* sounding windows still to come
LeadingSilenceWitness ==
    /\ pc = "walk"
    /\ bi = 2
    /\ ~SoundedBy(1)
    /\ Windows >= 3
    /\ Sounding(2) /= {}
    /\ bass = <<>>
    /\ prev_pcset = None
    /\ prev_midi = None

\* the first beat window that sounds, Windows when none does
FirstSounding ==
    IF \E w \in 0..(Windows - 1) : Sounding(w) /= {}
    THEN CHOOSE w \in 0..(Windows - 1) :
             Sounding(w) /= {} /\ \A v \in 0..(w - 1) : Sounding(v) = {}
    ELSE Windows

\* C8: when add_bassline has walked the grid, the bass track (the last
\* instrument) holds one note for each beat window from the first sounding
\* window on, none for the windows before it, in the order of the windows:
\* its j-th note starts at the start of window FirstSounding + j - 1.
OneNotePerBeat ==
    (pc = "done" /\ ~NoHarmony) =>
        LET track == instruments[Len(instruments)]
        IN  /\ Len(instruments) = Len(input) + 1
            /\ track.notes = bass
            /\ Len(bass) = Windows - FirstSounding
            /\ \A j \in 1..Len(bass) : bass[j].start = beats[FirstSounding + j]

\* C8 witness: a piece that starts with a silent window, then sounds, falls
\* silent and sounds again, has three bass notes
OneNotePerBeatWitness ==
    /\ pc = "done"
    /\ ~NoHarmony
    /\ Windows = 4
    /\ FirstSounding = 1
    /\ Sounding(2) = {}
    /\ Sounding(3) /= {}
    /\ Len(instruments[Len(instruments)].notes) = 3

\* C18: once the walk has selected a pitch class, order is the active set,
\* not empty and in ascending order, and idx is a place of order
\* (0 <= idx < len(order)); idx is never below 0.
IndexInsideOrder ==
    /\ idx >= 0
    /\ (Walking /\ prev_pcset /= None) =>
           /\ order /= <<>>
           /\ order = Get(prev_pcset)
           /\ Ascending(order, {order[r] : r \in 1..Len(order)})
           /\ idx < Len(order)

\* C18 witness: a chord of one tone was walked for two beats and the walk
\* stands on its only place
IndexInsideOrderWitness ==
    /\ pc = "walk"
    /\ Len(bass) = 2
    /\ Len(order) = 1
    /\ idx = 0
    /\ ~dir_up

-----------------------------------------------------------------------------
(* One chord for m beats, then another for n beats *)

\* the voicings the two chords are taken from: C major, D minor, a dyad,
\* one tone, a four-tone chord and a second voicing of C major
ChangeVoicings ==
    {<<48, 52, 55>>, <<50, 53, 57>>, <<52, 48>>, <<57>>, <<59, 50, 53, 57>>,
     <<67, 64, 60>>}

\* the pitch classes of a voicing
PcsOf(v) == {v[i] % 12 : i \in 1..Len(v)}

MaxFirst == 4

MaxSecond == 3

\* the chart sounding voicing a for m beats and then voicing b for n beats
two_chord_chart(a, m, b, n) == [w \in 1..(m + n) |-> IF w <= m THEN a ELSE b]

InitChange ==
    /\ \E a \in ChangeVoicings : \E b \in ChangeVoicings :
       \E m \in 1..MaxFirst : \E n \in 1..MaxSecond :
           /\ PcsOf(a) /= PcsOf(b)
           /\ Entered(<<melody_track, chord_track(two_chord_chart(a, m, b, n))>>,
                      timeline_of(m + n))
    /\ proj = proj_idle
    /\ batch = batch_idle

SpecChange == InitChange /\ [][Next]_vars

\* the number of leading beat windows that sound what window 0 sounds
FirstChordBeats ==
    IF \A w \in 0..(Windows - 1) : Sounding(w) = Sounding(0)
    THEN Windows
    ELSE CHOOSE w \in 0..(Windows - 1) :
             /\ Sounding(w) /= Sounding(0)
             /\ \A v \in 0..(w - 1) : Sounding(v) = Sounding(0)

\* the pitch classes of the bass notes so far
BassPcs == [j \in 1..Len(bass) |-> BassPc(j)]

\* C7: when the harmony track sounds A for m beats and then a different B
\* for n beats, the bass sounds the first m tones of A's ping-pong, then the
\* first n tones of B's ping-pong from B's lowest tone, wherever the walk
\* over A stood; {0,4,7} for 4 beats, then {2,5,9} for 3 gives 0,4,7,4,2,5,9.
ChangeRestartsAtBottom ==
    Walking =>
        LET A == Sounding(0)
            m == FirstChordBeats
            B == Sounding(m)
        IN  /\ \A j \in 1..Len(bass) :
                   BassPc(j) =
                       IF j <= m
                       THEN Ranked(A, PingPong(Cardinality(A), j - 1))
                       ELSE Ranked(B, PingPong(Cardinality(B), j - m - 1))
            /\ (pc = "done" /\ A = {0, 4, 7} /\ m = 4 /\ Windows = 7
                    /\ Sounding(4) = {2, 5, 9})
                   => BassPcs = <<0, 4, 7, 4, 2, 5, 9>>

\* C7 witness: C major for 4 beats, then D minor for 3, walked to the end
ChangeWitness ==
    /\ pc = "done"
    /\ Windows = 7
    /\ \A w \in 0..3 : Sounding(w) = {0, 4, 7}
    /\ \A w \in 4..6 : Sounding(w) = {2, 5, 9}
    /\ BassPcs = <<0, 4, 7, 4, 2, 5, 9>>

-----------------------------------------------------------------------------
(* The range projection on every argument *)

\* the calls pc_to_midi_near(p, ref): every pitch class, every MIDI pitch
\* or None as the reference
ProjCalls ==
    {[p |-> q, ref |-> r, out |-> None] :
        q \in 0..11, r \in {None} \cup {Some(m) : m \in 0..127}}

\* either any call of pc_to_midi_near beside a score of one beat, or one
\* call beside a score of any chart
InitRange ==
    /\ \/ /\ proj \in ProjCalls
          /\ Entered(<<melody_track, chord_track(<< <<48, 52, 55>> >>)>>, timeline_of(1))
       \/ /\ proj = [p |-> 0, ref |-> None, out |-> None]
          /\ \E chart \in Charts(MaxBeats) :
                 Entered(<<melody_track, chord_track(chart)>>, timeline_of(Len(chart)))
    /\ batch = batch_idle

NextRange == Next \/ Project

SpecRange == InitRange /\ [][NextRange]_vars

\* C3: pc_to_midi_near returns, for every pitch class and every reference,
\* a pitch between 24 and 48 of the requested pitch class; so every note of
\* the bass, and of the bass track once it is appended, lies in [24, 48].
ProjectorInRange ==
    /\ proj.out = None => ENABLED Project
    /\ proj.out /= None =>
           /\ 24 <= Get(proj.out) /\ Get(proj.out) <= 48
           /\ Get(proj.out) % 12 = proj.p
    /\ \A j \in 1..Len(bass) : 24 <= bass[j].pitch /\ bass[j].pitch <= 48
    /\ (pc = "done" /\ ~NoHarmony) =>
           LET notes == instruments[Len(instruments)].notes
           IN  \A j \in 1..Len(notes) : notes[j].pitch \in 24..48

\* C3 witness: B projected near the reference 127 came down six octaves
\* from 119 to 47
ProjectorInRangeWitness ==
    /\ proj.p = 11
    /\ proj.ref = Some(127)
    /\ proj.out = Some(47)

\* the reference pitch of the call in proj
ProjBase == IF proj.ref = None THEN 36 ELSE Get(proj.ref)

\* C4: for a reference in [24, 48] (or None, which is 36) the pitch returned
\* is as near to the reference as any pitch of [24, 48] with the requested
\* pitch class; a reference of the requested pitch class is returned itself.
ProjectorNearest ==
    (proj.out /= None /\ ProjBase \in 24..48) =>
        /\ \A q \in 24..48 :
               q % 12 = proj.p =>
                   Abs(Get(proj.out) - ProjBase) <= Abs(q - ProjBase)
        /\ ProjBase % 12 = proj.p => Get(proj.out) = ProjBase

\* C4 witness: C projected near the reference 36 is 36
ProjectorNearestWitness ==
    /\ proj.p = 0
    /\ proj.ref = Some(36)
    /\ proj.out = Some(36)

-----------------------------------------------------------------------------
(* Scores of several tracks, named and unnamed, with and without notes *)

\* "Gtr CHORDS"
FUZZY_NAME == <<"G", "t", "r", " ", "C", "H", "O", "R", "D", "S">>

\* "piano, chord:"
NEAR_NAME ==
    <<"p", "i", "a", "n", "o", ",", " ", "c", "h", "o", "r", "d", ":">>

\* no name, the exact prefix, the substring in capitals, and a name that
\* matches neither
SelectNames == {<<>>, CHORDS_NAME, FUZZY_NAME, NEAR_NAME}

\* no notes, a line of two successive notes, a triad held for two beats
SelectNotes ==
    {<<>>,
     <<Note(60, 0, BEAT), Note(62, BEAT, 2 * BEAT)>>,
     <<Note(48, 0, 2 * BEAT), Note(52, 0, 2 * BEAT), Note(55, 0, 2 * BEAT)>>}

SelectTracks == {Instrument(nm, ns) : nm \in SelectNames, ns \in SelectNotes}

MaxTracks == 3

InitSelect ==
    /\ \E k \in 0..MaxTracks : \E insts \in [1..k -> SelectTracks] :
           Entered(insts, timeline_of(2))
    /\ proj = proj_idle
    /\ batch = batch_idle

SpecSelect == InitSelect /\ [][Next]_vars

\* characters a and b are the same letter, whatever their case
SameLetter(a, b) ==
    a = b \/ \E i \in 1..Len(UPPER) : {a, b} = {UPPER[i], LOWER[i]}

\* the tracks whose name starts with the exact prefix
ExactTracks ==
    {i \in 1..Len(input) :
        /\ Len(input[i].name) >= Len(chord_instr_name_prefix)
        /\ SubSeq(input[i].name, 1, Len(chord_instr_name_prefix))
               = chord_instr_name_prefix}

\* the tracks whose name contains "chords", case ignored
FuzzyTracks ==
    {i \in 1..Len(input) :
        \E k \in 1..(Len(input[i].name) - 5) :
            \A c \in 1..6 : SameLetter(input[i].name[k + c - 1], CHORDS_SUBSTRING[c])}

\* the tracks that have a note
TracksWithNotes == {i \in 1..Len(input) : input[i].notes /= <<>>}

\* the least of a non-empty set of positions
First(S) == CHOOSE i \in S : \A j \in S : i <= j

\* the earliest of the tracks with notes whose simultaneity score is highest
MostPolyphonic ==
    LET scored == {<<i, avg_simultaneity(input[i])>> : i \in TracksWithNotes}
        best == CHOOSE a \in scored :
                    \A b \in scored :
                        b[2] <= a[2] /\ (b[1] < a[1] => b[2] < a[2])
    IN  best[1]

\* C10: the harmony track is the first track whose name starts with the
\* exact prefix; if there is none, the first whose name contains "chords"
\* in any case; if there is none, the track of the highest simultaneity
\* score among those with notes, the earliest on a tie (none when no track
\* has notes).
SelectionPriority ==
    pc /= "select" =>
        chords_inst =
            IF ExactTracks /= {} THEN Some(First(ExactTracks))
            ELSE IF FuzzyTracks /= {} THEN Some(First(FuzzyTracks))
            ELSE IF TracksWithNotes = {} THEN None
            ELSE Some(MostPolyphonic)

\* C10 witness: no name matches, a line comes before two equal triads, and
\* the first of the triads is the harmony track
SelectionPriorityWitness ==
    /\ pc = "grid"
    /\ Len(input) = 3
    /\ ExactTracks = {} /\ FuzzyTracks = {}
    /\ TracksWithNotes = {1, 2, 3}
    /\ avg_simultaneity(input[1]) < avg_simultaneity(input[2])
    /\ avg_simultaneity(input[2]) = avg_simultaneity(input[3])
    /\ chords_inst = Some(2)

\* C9: when no harmony track is found (no track at all, no track with
\* notes, or a selected track without notes), add_bassline returns at once
\* with the score as it was: no track is appended and no note is changed.
ReturnedUnmodified ==
    (pc /= "select" /\ NoHarmony) =>
        /\ pc = "done"
        /\ instruments = input
        /\ bass = <<>>

\* C9 witness: the track named as the chord track has no notes, another
\* track has, and the score was returned as it was
ReturnedUnmodifiedWitness ==
    /\ pc = "done"
    /\ chords_inst /= None
    /\ input[Get(chords_inst)].notes = <<>>
    /\ TracksWithNotes /= {}
    /\ instruments = input

\* C19: a track matched by its name is the harmony track even when it has
\* no notes, and then the score is returned as it was; a track that no
\* name rule matches is the harmony track only when no track's name
\* matches.
NameMatchWins ==
    pc /= "select" =>
        LET named == ExactTracks \cup FuzzyTracks
        IN  /\ named /= {} =>
                   /\ chords_inst /= None
                   /\ Get(chords_inst) \in named
                   /\ input[Get(chords_inst)].notes = <<>> =>
                          pc = "done" /\ instruments = input
            /\ (chords_inst /= None /\ Get(chords_inst) \notin named) =>
                   named = {}

\* C19 witness: a triad track without a name comes first, the one track
\* with a matching name has no notes; that one was selected and the score
\* returned as it was
NameMatchWinsWitness ==
    /\ pc = "done"
    /\ Len(input) = 2
    /\ input[1].name = <<>>
    /\ Len(input[1].notes) = 3
    /\ FuzzyTracks = {2}
    /\ input[2].notes = <<>>
    /\ chords_inst = Some(2)
    /\ Len(instruments) = 2

-----------------------------------------------------------------------------
(* Notes that lie anywhere against the beat windows *)

\* the places a note may take in a piece of three beats: window 0, across
\* the first boundary, windows 1 and 2, inside window 1; and two places no
\* well-formed note takes: of no length, and ending before it starts
NoteSpans ==
    {<<0, BEAT>>, <<BEAT \div 2, BEAT + BEAT \div 2>>, <<BEAT, 3 * BEAT>>,
     <<BEAT + 20, 2 * BEAT - 20>>, <<BEAT + 50, BEAT + 50>>,
     <<2 * BEAT - 20, BEAT + 20>>}

\* the notes of the chord track: C in two octaves and G
OverlapNotes == {Note(p, sp[1], sp[2]) : p \in {48, 55, 60}, sp \in NoteSpans}

MaxNotes == 2

InitOverlap ==
    /\ \E k \in 1..MaxNotes : \E notes \in [1..k -> OverlapNotes] :
           Entered(<<Instrument(CHORDS_NAME, notes)>>, timeline_of(3))
    /\ proj = proj_idle
    /\ batch = batch_idle

SpecOverlap == InitOverlap /\ [][Next]_vars

\* C11: the pitch classes a beat takes from window bi are those of the
\* harmony notes with start < window end and end > window start, in
\* ascending order without duplicates (a sounding window makes them the
\* active set; a window with no such note is silent: the active set is
\* kept, and with none active no note is emitted); so a note that ends at
\* the window's start or starts at its end is not counted and a note that
\* overlaps it in part is; the tracks are not changed by the beat.
ExtractionIsOverlap ==
    [][BeatStep =>
          /\ Sounding(bi) /= {} =>
                 prev_pcset' /= None /\ Ascending(Get(prev_pcset'), Sounding(bi))
          /\ Sounding(bi) = {} =>
                 prev_pcset' = prev_pcset /\ (prev_pcset = None => bass' = bass)
          /\ instruments' = instruments]_vars

\* C11 witness: of a G that starts where window 0 ends and a C that lies
\* across that boundary, window 0 took the C alone
ExtractionWitness ==
    /\ pc = "walk"
    /\ bi = 1
    /\ input[1].notes =
           <<Note(55, BEAT, 3 * BEAT), Note(48, BEAT \div 2, BEAT + BEAT \div 2)>>
    /\ prev_pcset = Some(<<0>>)
    /\ Len(bass) = 1

\* the pitch classes of the well-formed notes (start < end) that overlap
\* beat window w
WellFormedSounding(w) ==
    {Harmony.notes[i].pitch % 12 :
        i \in {j \in 1..Len(Harmony.notes) :
                  /\ Harmony.notes[j].start < Harmony.notes[j].end
                  /\ Harmony.notes[j].start < beats[w + 2]
                  /\ Harmony.notes[j].end > beats[w + 1]}}

\* C12, as claimed: a note with start >= end gives no window a pitch class
\* (every beat takes the pitch classes of the well-formed notes only), and
\* the pass is not aborted.
MalformedExcluded ==
    [][BeatStep =>
          /\ WellFormedSounding(bi) /= {} =>
                 prev_pcset' /= None
                     /\ Ascending(Get(prev_pcset'), WellFormedSounding(bi))
          /\ WellFormedSounding(bi) = {} => prev_pcset' = prev_pcset
          /\ pc' /= "raised"]_vars

-----------------------------------------------------------------------------
(* Timelines of few or uneven beats, in 4/4 and in 2/2 *)

RECURSIVE boundaries(_, _)
\* the beat boundaries from t0 on with the given gaps between them
boundaries(gaps, t0) ==
    IF gaps = <<>> THEN <<t0>>
    ELSE <<t0>> \o boundaries(Tail(gaps), t0 + Head(gaps))

MaxNative == 3

\* what get_beats() may return: no boundary, or up to n boundaries from 0
\* on, a beat or two beats apart (the tempo may change)
NativeGrids(n) ==
    {<<>>} \cup
    {boundaries(g, 0) : g \in UNION {[1..k -> {BEAT, 2 * BEAT}] : k \in 0..(n - 1)}}

\* the timelines: any native grid; no, one or two downbeats; no time
\* signature, or a first one of denominator 4 or 2
GridTimelines ==
    {[beats |-> b, downbeats |-> d, time_signatures |-> ts] :
        b \in NativeGrids(MaxNative),
        d \in {<<>>, <<0>>, <<0, 4 * BEAT>>},
        ts \in {<<>>, <<4>>, <<2>>, <<4, 2>>}}

\* chord tracks: two notes over two beats, a note shorter than the 0.5 s
\* step, a note of no length, a note of two and a half steps
GridChordNotes ==
    {<<Note(48, 0, 2 * BEAT), Note(55, BEAT, 2 * BEAT)>>,
     <<Note(48, 0, BEAT \div 2)>>,
     <<Note(48, BEAT, BEAT)>>,
     <<Note(50, 0, 2 * BEAT + BEAT \div 2)>>}

InitGrid ==
    /\ \E tl \in GridTimelines : \E notes \in GridChordNotes :
           Entered(<<melody_track, Instrument(CHORDS_NAME, notes)>>, tl)
    /\ proj = proj_idle
    /\ batch = batch_idle

SpecGrid == InitGrid /\ [][Next]_vars

\* the native beat boundaries: those of the timeline or of its fallbacks
Native == native_beats(timeline, Harmony)

\* the density of the grid
Density == effective_note_density(timeline.time_signatures)

\* sequence s is strictly increasing
Increasing(s) == \A i \in 1..(Len(s) - 1) : s[i] < s[i + 1]

\* C14, as claimed: when the timeline, after its fallbacks, gives fewer
\* than two boundaries, no beat window is walked and no bass note is
\* emitted, and no error is raised.
FewBoundariesNoError ==
    (pc \notin {"select", "grid"} /\ ~NoHarmony /\ Len(Native) < 2) =>
        /\ pc /= "raised"
        /\ bi = 0
        /\ bass = <<>>
        /\ pc = "done" => instruments[Len(instruments)].notes = <<>>

\* C16: the j-th bass note starts at the start of its beat window and ends
\* at 98% of the window, before the window's end; so on a strictly
\* increasing grid the bass notes start later and later and each ends
\* before the next starts.
BassNotesInsideWindows ==
    Walking =>
        /\ \A j \in 1..Len(bass) :
               LET t0 == beats[FirstSounding + j]
                   t1 == beats[FirstSounding + j + 1]
               IN  /\ bass[j].start = t0
                   /\ 100 * (bass[j].end - t0) = 98 * (t1 - t0)
                   /\ bass[j].end < t1
        /\ Increasing(beats) =>
               \A j \in 1..(Len(bass) - 1) :
                   /\ bass[j].start < bass[j + 1].start
                   /\ bass[j].end < bass[j + 1].start

\* C16 witness: on a grid of beats subdivided in two and of uneven length,
\* three bass notes were emitted
BassNotesWitness ==
    /\ pc = "done"
    /\ ~NoHarmony
    /\ Density = 2
    /\ Len(bass) >= 3
    /\ bass[1].end - bass[1].start /= bass[Len(bass)].end - bass[Len(bass)].start

\* C17: with density d > 1 and n >= 2 native boundaries the grid has
\* (n - 1) * d + 1 boundaries: every native boundary in its order, d - 1
\* boundaries equally spaced between each two neighbours, the last
\* boundary as it was; the grid is strictly increasing if the native
\* boundaries are.
SubdividedGrid ==
    (pc \in {"walk", "done"} /\ ~NoHarmony /\ Density > 1 /\ Len(Native) >= 2) =>
        LET n == Len(Native)
            d == Density
        IN  /\ Len(beats) = (n - 1) * d + 1
            /\ \A i \in 1..n : beats[(i - 1) * d + 1] = Native[i]
            /\ \A i \in 1..(n - 1) : \A j \in 1..(d - 1) :
                   d * (beats[(i - 1) * d + 1 + j] - Native[i])
                       = j * (Native[i + 1] - Native[i])
            /\ beats[Len(beats)] = Native[n]
            /\ Increasing(Native) => Increasing(beats)

\* C17 witness: three native boundaries one and two beats apart, in 2/2,
\* became five
SubdividedWitness ==
    /\ pc = "walk"
    /\ Density = 2
    /\ timeline.beats = <<0, BEAT, 3 * BEAT>>
    /\ beats = <<0, BEAT \div 2, BEAT, 2 * BEAT, 3 * BEAT>>

\* C13: once a harmony track is found, every track the score came with
\* keeps its name, its program and its notes, but for the velocities of
\* the harmony track; no track is added before the walk over all beat
\* windows is over, and then exactly one is, last, holding the bass notes.
OneTrackAppended ==
    (pc /= "select" /\ ~NoHarmony) =>
        /\ \A i \in 1..Len(input) :
               /\ instruments[i].name = input[i].name
               /\ instruments[i].program = input[i].program
               /\ Len(instruments[i].notes) = Len(input[i].notes)
               /\ \A k \in 1..Len(input[i].notes) :
                      LET old == input[i].notes[k]
                          new == instruments[i].notes[k]
                      IN  /\ new.pitch = old.pitch
                          /\ new.start = old.start
                          /\ new.end = old.end
                          /\ i /= Get(chords_inst) => new.velocity = old.velocity
        /\ pc /= "done" => Len(instruments) = Len(input)
        /\ pc = "done" =>
               /\ bi = Windows
               /\ Len(instruments) = Len(input) + 1
               /\ instruments[Len(instruments)] =
                      [name |-> BASS_NAME, program |-> BASS_PROGRAM,
                       is_drum |-> FALSE, notes |-> bass]

\* C13 witness: a score of a melody and a chord track got its third track,
\* of two bass notes, after both windows were walked
OneTrackWitness ==
    /\ pc = "done"
    /\ ~NoHarmony
    /\ Len(input) = 2
    /\ Len(instruments) = 3
    /\ bi = 2
    /\ Len(instruments[3].notes) = 2

-----------------------------------------------------------------------------
(* process_all: the loop over the input files *)

\* the file of a number: absent, or there as .midi or as .mid; whether
\* PrettyMIDI loads it, and what it holds; whether the output can be
\* written
File(ext, loads, writes, score) ==
    [ext |-> ext, loads |-> loads, writes |-> writes, score |-> score]

Score(insts, tl) == [instruments |-> insts, timeline |-> tl]

\* a melody and a chord track of one triad over two beats
plain_score ==
    Score(<<melody_track, chord_track(<<<<48, 52, 55>>, <<48, 52, 55>>>>)>>,
          timeline_of(2))

\* no track is named as melody: drums, a line, a chord track
unnamed_score ==
    Score(<<[Instrument(<<>>, <<Note(36, 0, BEAT), Note(38, 0, BEAT)>>)
                EXCEPT !.is_drum = TRUE],
            Instrument(<<>>, <<Note(60, 0, BEAT), Note(62, BEAT, 2 * BEAT)>>),
            chord_track(<<<<50, 53, 57>>>>)>>,
          timeline_of(1))

\* a score without tracks
empty_score == Score(<<>>, timeline_of(0))

\* a score in 2/2 whose timeline has no beats and whose chord track holds
\* one note of no length
lengthless_score ==
    Score(<<Instrument(CHORDS_NAME, <<Note(48, BEAT, BEAT)>>)>>,
          [beats |-> <<>>, downbeats |-> <<>>, time_signatures |-> <<2>>])

missing_file == File("none", FALSE, FALSE, empty_score)

\* the files a number may stand for
Files ==
    {missing_file,
     File("midi", FALSE, FALSE, empty_score),
     File("mid", TRUE, TRUE, plain_score)}
    \cup {File("midi", TRUE, w, sc) :
              w \in BOOLEAN,
              sc \in {plain_score, unnamed_score, empty_score, lengthless_score}}

MaxFiles == 2

\* the file of number n: the directory holds files for the first numbers
\* only
file_at(n) == IF n <= Len(batch.files) THEN batch.files[n] ELSE missing_file

\* one line of the report: what was printed for a file, and the count of
\* bass notes added
Line(outcome, added) == [outcome |-> outcome, added |-> added]

InitBatch ==
    /\ \E fs \in [1..MaxFiles -> Files] : batch = [files |-> fs, n |-> 1, log |-> <<>>]
    /\ pc = "next"
    /\ input = <<>>
    /\ instruments = <<>>
    /\ timeline = timeline_of(0)
    /\ chords_inst = None
    /\ beats = <<>>
    /\ bass = <<>>
    /\ prev_pcset = None
    /\ order = <<>>
    /\ idx = 0
    /\ dir_up = TRUE
    /\ prev_midi = None
    /\ bi = 0
    /\ proj = proj_idle

\* lines 296-319: the file of number n is looked for and loaded, its melody
\* retargeted, and add_bassline called on it; a missing file and a file
\* that fails to load are reported and the loop goes on
BatchLoad ==
    /\ pc = "next"
    /\ batch.n <= LAST_FILE
    /\ LET f == file_at(batch.n)
       IN  IF f.ext = "none" \/ ~f.loads
           THEN /\ batch' =
                     [batch EXCEPT
                        !.n = @ + 1,
                        !.log = Append(@, Line(IF f.ext = "none" THEN "skip"
                                               ELSE "error loading", 0))]
                /\ pc' = "next"
                /\ UNCHANGED <<input, timeline, instruments, chords_inst,
                               beats, bass, walk, bi>>
           ELSE /\ input' = retarget_melody_to_sax(f.score.instruments)
                /\ instruments' = retarget_melody_to_sax(f.score.instruments)
                /\ timeline' = f.score.timeline
                /\ pc' = "select"
                /\ chords_inst' = None
                /\ beats' = <<>>
                /\ bass' = <<>>
                /\ prev_pcset' = None
                /\ order' = <<>>
                /\ idx' = 0
                /\ dir_up' = TRUE
                /\ prev_midi' = None
                /\ bi' = 0
                /\ UNCHANGED batch
    /\ UNCHANGED proj

\* lines 321-342: add_bassline has returned; the bass notes are counted,
\* the score is written and reported, or the failure to write is
\* (the name written to, lines 329-337, decides nothing here)
BatchWrite ==
    /\ pc = "done"
    /\ batch.n >= 1
    /\ LET f == file_at(batch.n)
           last == instruments[Len(instruments)]
           added == IF /\ instruments /= <<>>
                       /\ last.name /= <<>>
                       /\ startswith(last.name, WALKING_BASS)
                    THEN Len(last.notes)
                    ELSE 0
       IN  batch' =
               [batch EXCEPT
                  !.n = @ + 1,
                  !.log = Append(@, Line(IF f.writes THEN "ok"
                                         ELSE "error writing", added))]
    /\ pc' = "next"
    /\ UNCHANGED <<input, timeline, instruments, chords_inst, beats, bass,
                   walk, bi, proj>>

\* line 319 stands in no try: what add_bassline raises leaves the loop and
\* process_all
BatchRaise ==
    /\ pc = "raised"
    /\ batch.n >= 1
    /\ pc' = "crashed"
    /\ UNCHANGED <<input, timeline, instruments, chords_inst, beats, bass,
                   walk, bi, proj, batch>>

\* line 296: the range is used up
BatchEnd ==
    /\ pc = "next"
    /\ batch.n > LAST_FILE
    /\ pc' = "finished"
    /\ UNCHANGED <<input, timeline, instruments, chords_inst, beats, bass,
                   walk, bi, proj, batch>>

NextBatch == Next \/ BatchLoad \/ BatchWrite \/ BatchRaise \/ BatchEnd

SpecBatch == InitBatch /\ [][NextBatch]_vars

\* what is to be reported of the file of number n
Due(n) ==
    LET f == file_at(n)
    IN  IF f.ext = "none" THEN "skip"
        ELSE IF ~f.loads THEN "error loading"
        ELSE IF ~f.writes THEN "error writing"
        ELSE "ok"

\* C15, as claimed: a file that is missing, does not load or cannot be
\* written is skipped or reported and the files after it are still
\* processed: when process_all is over, by its end or by a failure, every
\* file number from 1 to 155 has been dealt with and reported as is due.
NoFailureHaltsTheBatch ==
    pc \in {"finished", "crashed"} =>
        /\ batch.n = LAST_FILE + 1
        /\ Len(batch.log) = LAST_FILE
        /\ \A n \in 1..LAST_FILE : batch.log[n].outcome = Due(n)

\* no file holds a score that add_bassline raises on
NoneRaises ==
    \A n \in 1..Len(batch.files) : batch.files[n].score /= lengthless_score

\* the files that fail in the three ways named do not halt the batch
NamedFailuresSkipped == NoneRaises => NoFailureHaltsTheBatch

\* a file that does not load, then a file that cannot be written (two bass
\* notes were added to it), and the end reached
NamedFailuresWitness ==
    /\ pc = "finished"
    /\ Due(1) = "error loading"
    /\ Due(2) = "error writing"
    /\ batch.log[2].added = 2

=============================================================================
